---- MODULE Spec2Model ----
(***************************************************************************)
(* A state-machine model of the SDL2 lesson programs: the main function of *)
(* every lesson (initialisation chain, drawing, event loop, cleanup), the  *)
(* variadic cleanup helper, getResourcePath and the tile arithmetic of     *)
(* Lesson 5.                                                               *)
(***************************************************************************)
EXTENDS Integers, Sequences, FiniteSets, TLC

(***************************************************************************)
(* Bounds of the model                                                     *)
(***************************************************************************)
\* largest image width / height the texture query may report
MaxImageW == 400
MaxImageH == 200
\* image sizes are the multiples of ImageStep
ImageStep == 50
\* longest base path SDL_GetBasePath may report, in characters
MaxPathLen == 5
\* number of getResourcePath calls followed in SpecResPath
MaxCalls == 3
\* largest display and tile edge tried in SpecGrid (besides the program's own)
MaxDisplay == 12
MaxTile == 5

(***************************************************************************)
(* Program constants                                                       *)
(***************************************************************************)
SCREEN_WIDTH == 640
SCREEN_HEIGHT == 480
TILE_W == 100
TILE_H == 100
\* number of frames of the Lesson 1 rendering loop
L1_FRAMES == 3
PATH_SEP == "/"

Lessons == {"L1", "L1c", "L2", "L3", "L4", "L5", "L6"}

Handles == {"win", "ren", "bmp", "tex", "background", "image",
            "bgSurf", "imgSurf", "font", "surf"}

VARIABLES
    lesson,      \* which lesson's main is running
    pc,          \* position of main
    exitCode,    \* return value of main, -1 while running
    res,         \* handles and library subsystems
    iter,        \* loop counter i of the Lesson 1 rendering loop
    screen,      \* display size  [w, h]
    tile,        \* tile size     [w, h]
    image,       \* imageW, imageH as reported by SDL_QueryTexture
    xTiles, yTiles, totalTiles, clips, useClip,
    xScreenTiles, yScreenTiles, totalScreenTiles,
    quit,        \* the loop flag
    e,           \* the SDL_Event structure last filled by SDL_PollEvent
    drawn,       \* the draw calls of the last rendered frame (Lesson 5)
    framesAfterQuit,  \* frames rendered while quit was already true
    baseRes,     \* the static cache of getResourcePath
    gbpCalls,    \* number of SDL_GetBasePath calls made
    gbpSucceeded,\* some SDL_GetBasePath call returned non-NULL
    lastBase,    \* what the last getResourcePath call got from SDL_GetBasePath
    lastSub,     \* subDir of the last getResourcePath call
    ret          \* return value of the last getResourcePath call

mainVars == <<lesson, pc, exitCode, res, iter>>
tileVars == <<screen, tile, image, xTiles, yTiles, totalTiles, clips, useClip,
              xScreenTiles, yScreenTiles, totalScreenTiles>>
loopVars == <<quit, e, drawn, framesAfterQuit>>
pathVars == <<baseRes, gbpCalls, gbpSucceeded, lastBase, lastSub, ret>>
vars == <<mainVars, tileVars, loopVars, pathVars>>

(***************************************************************************)
(* Handles and subsystems                                                  *)
(***************************************************************************)
\* res.ptr[h]  : value of the pointer variable, "NULL" or "LIVE"
\* res.rel[h]  : number of release calls (SDL_Destroy*, SDL_FreeSurface,
\*               TTF_CloseFont) made with that pointer
\* res.sdl/ttf : "off" (never initialised), "up", "down" (after *_Quit)
\* res.late    : a release or render call was made after SDL_Quit
InitRes ==
    [ptr |-> [h \in Handles |-> "NULL"],
     rel |-> [h \in Handles |-> 0],
     sdl |-> "off", ttf |-> "off",
     sdlQuits |-> 0, ttfQuits |-> 0, imgQuits |-> 0,
     late |-> FALSE]

\* a creation call storing its result in pointer h
Acquire(r, h, ok) == [r EXCEPT !.ptr[h] = IF ok THEN "LIVE" ELSE "NULL"]

\* SDL_DestroyWindow / SDL_DestroyRenderer / SDL_DestroyTexture /
\* SDL_FreeSurface / TTF_CloseFont called with pointer h
Destroy(r, h) ==
    [r EXCEPT !.rel[h] = @ + 1, !.late = @ \/ (r.sdl = "down")]

\* one of the render calls
RenderCall(r) == [r EXCEPT !.late = @ \/ (r.sdl = "down")]

\* variant of cleanup1: no null test
cleanup1NoNullCheck(r, h) == Destroy(r, h)

\* the single-handle specialisations of cleanup
cleanup1(r, h) == IF r.ptr[h] = "NULL" THEN r ELSE Destroy(r, h)

\* the variadic cleanup: the first item, then the rest
RECURSIVE cleanup(_, _)
cleanup(r, hs) ==
    IF Len(hs) = 0 THEN r
    ELSE IF Len(hs) = 1 THEN cleanup1(r, hs[1])
    ELSE cleanup(cleanup1(r, Head(hs)), Tail(hs))

SDL_Init(r, ok) == [r EXCEPT !.sdl = IF ok THEN "up" ELSE @]
TTF_Init(r, ok) == [r EXCEPT !.ttf = IF ok THEN "up" ELSE @]
SDL_Quit(r) == [r EXCEPT !.sdl = "down", !.sdlQuits = @ + 1]
TTF_Quit(r) ==
    [r EXCEPT !.ttf = "down", !.ttfQuits = @ + 1,
              !.late = @ \/ (r.sdl = "down")]
IMG_Quit(r) == [r EXCEPT !.imgQuits = @ + 1]

(***************************************************************************)
(* getResourcePath (res_path.h)                                            *)
(***************************************************************************)
\* strings are sequences of characters
Chars == {"b", "i", "n", PATH_SEP}
Str(n) == UNION {[1..k -> Chars] : k \in 0..n}

\* std::string::npos
NPOS == -1

\* s.rfind(pat): 0-based position of the last occurrence, or npos
RFind(s, pat) ==
    LET hits == {p \in 0..(Len(s) - Len(pat)) :
                    SubSeq(s, p + 1, p + Len(pat)) = pat}
    IN  IF hits = {} THEN NPOS
        ELSE CHOOSE p \in hits : \A q \in hits : q <= p

\* s.substr(0, pos); pos = npos keeps the whole string
Substr0(s, pos) == IF pos = NPOS THEN s ELSE SubSeq(s, 1, pos)

BIN == <<"b", "i", "n">>
RES == <<"r", "e", "s">>

\* variants of ReplaceBin: nothing appended; "res" without the separator
ReplaceBinNoAppend(basePath) == Substr0(basePath, RFind(basePath, BIN))
ReplaceBinNoSep(basePath) == Substr0(basePath, RFind(basePath, BIN)) \o RES

\* "Replace trailing bin/ with res/"
ReplaceBin(basePath) ==
    Substr0(basePath, RFind(basePath, BIN)) \o RES \o <<PATH_SEP>>

\* what SDL_GetBasePath hands back: NULL, or a path ending in a separator
NullGbp == [ok |-> FALSE, path |-> <<>>]
BasePaths == {p \o <<PATH_SEP>> : p \in Str(MaxPathLen - 1)}
GbpResults == {NullGbp} \cup {[ok |-> TRUE, path |-> p] : p \in BasePaths}
SubDirs == {<<>>, <<"L">>}

\* one call getResourcePath(subDir) with static cache `cache`, where gbp is
\* what SDL_GetBasePath returns if it is called
getResourcePath(cache, subDir, gbp) ==
    IF cache = <<>>
    THEN IF gbp.ok
         THEN LET b == ReplaceBin(gbp.path)
              IN  [baseRes |-> b, queried |-> TRUE,
                   ret |-> IF subDir = <<>> THEN b
                           ELSE b \o subDir \o <<PATH_SEP>>]
         ELSE [baseRes |-> cache, queried |-> TRUE, ret |-> <<>>]
    ELSE [baseRes |-> cache, queried |-> FALSE,
          ret |-> IF subDir = <<>> THEN cache
                  ELSE cache \o subDir \o <<PATH_SEP>>]

\* the effect of one call on the path variables
ResPathCall(subDir, gbp) ==
    LET out == getResourcePath(baseRes, subDir, gbp)
    IN  /\ baseRes' = out.baseRes
        /\ ret' = out.ret
        /\ gbpCalls' = gbpCalls + (IF out.queried THEN 1 ELSE 0)
        /\ gbpSucceeded' = (gbpSucceeded \/ (out.queried /\ gbp.ok))
        /\ lastBase' = IF out.queried
                       THEN [queried |-> TRUE, ok |-> gbp.ok, path |-> gbp.path]
                       ELSE [lastBase EXCEPT !.queried = FALSE]
        /\ lastSub' = subDir

InitPath ==
    /\ baseRes = <<>>
    /\ gbpCalls = 0
    /\ gbpSucceeded = FALSE
    /\ lastBase = [queried |-> FALSE, ok |-> FALSE, path |-> <<>>]
    /\ lastSub = <<>>
    /\ ret = <<>>

(***************************************************************************)
(* Tile arithmetic of Lesson 5                                             *)
(***************************************************************************)
\* variant of SourceTiles: rounds up
SourceTilesCeil(size, t) == (size + t - 1) \div t

\* imageW / tileW : integer division of non-negative ints
SourceTiles(size, t) == size \div t

\* variants of ClipRect: row-major numbering; columns counted from 1
ClipRectRowMajor(i, rows, t) ==
    [x |-> (i % rows) * t.w, y |-> (i \div rows) * t.h, w |-> t.w, h |-> t.h]
ClipRectFromOne(i, rows, t) ==
    [x |-> (i \div rows + 1) * t.w, y |-> (i % rows) * t.h,
     w |-> t.w, h |-> t.h]

\* clips[i] as the build loop fills it; rows is yTiles
ClipRect(i, rows, t) ==
    [x |-> (i \div rows) * t.w, y |-> (i % rows) * t.h, w |-> t.w, h |-> t.h]

\* the clips array after the build loop
BuildClips(total, rows, t) == [i \in 0..(total - 1) |-> ClipRect(i, rows, t)]

\* variant of ScreenTiles: no extra tile for the remainder
ScreenTilesFloor(size, t) == size \div t

\* SCREEN_WIDTH / tileW + (SCREEN_WIDTH % tileW != 0 ? 1 : 0)
ScreenTiles(size, t) == size \div t + (IF size % t # 0 THEN 1 ELSE 0)

\* variant of ScreenOrigin: row-major use of the same divisor
ScreenOriginRowMajor(i, rows, t) ==
    [x |-> (i % rows) * t.w, y |-> (i \div rows) * t.h]

\* x, y of destination tile i; rows is yScreenTiles
ScreenOrigin(i, rows, t) ==
    [x |-> (i \div rows) * t.w, y |-> (i % rows) * t.h]

\* sizes SDL_QueryTexture may report
Dims(max) == {d \in 1..max : d % ImageStep = 0}
ImageSizes == {[w |-> a, h |-> b] : a \in Dims(MaxImageW), b \in Dims(MaxImageH)}

\* what a read beyond the end of clips may find on the stack
GarbageRects == {[x |-> 0, y |-> 0, w |-> 0, h |-> 0],
                 [x |-> -1, y |-> 7, w |-> 100000, h |-> 3]}

NoFrame == [dst |-> <<>>, clipIdx |-> -1,
            src |-> [x |-> 0, y |-> 0, w |-> 0, h |-> 0]]

(***************************************************************************)
(* Events                                                                  *)
(***************************************************************************)
KeySyms == {"SDLK_1", "SDLK_2", "SDLK_3", "SDLK_4",
            "SDLK_KP_1", "SDLK_KP_2", "SDLK_KP_3", "SDLK_KP_4",
            "SDLK_ESCAPE", "SDLK_a"}
Events ==
    {[type |-> t, sym |-> "none"] :
        t \in {"SDL_QUIT", "SDL_MOUSEBUTTONDOWN", "SDL_MOUSEMOTION"}}
    \cup {[type |-> "SDL_KEYDOWN", sym |-> k] : k \in KeySyms}
    \cup {[type |-> "SDL_KEYUP", sym |-> "SDLK_ESCAPE"]}
NoEvent == [type |-> "none", sym |-> "none"]

\* variant of L4Handle: only SDL_QUIT quits
L4QuitOnQuitOnly(q, ev) == IF ev.type = "SDL_QUIT" THEN TRUE ELSE q

\* Lesson 4: the switch on e.type
L4Handle(q, ev) ==
    IF ev.type \in {"SDL_QUIT", "SDL_KEYDOWN", "SDL_MOUSEBUTTONDOWN"}
    THEN TRUE ELSE q

\* variant of L5UseClip: the keypad keys are not handled
L5UseClipNoKeypad(u, ev) ==
    IF ev.type = "SDL_KEYDOWN"
    THEN CASE ev.sym = "SDLK_1" -> 0
           [] ev.sym = "SDLK_2" -> 1
           [] ev.sym = "SDLK_3" -> 2
           [] ev.sym = "SDLK_4" -> 3
           [] OTHER -> u
    ELSE u

\* Lesson 5: new value of useClip
L5UseClip(u, ev) ==
    IF ev.type = "SDL_KEYDOWN"
    THEN CASE ev.sym \in {"SDLK_1", "SDLK_KP_1"} -> 0
           [] ev.sym \in {"SDLK_2", "SDLK_KP_2"} -> 1
           [] ev.sym \in {"SDLK_3", "SDLK_KP_3"} -> 2
           [] ev.sym \in {"SDLK_4", "SDLK_KP_4"} -> 3
           [] OTHER -> u
    ELSE u

\* Lesson 5: new value of quit
L5Quit(q, ev) ==
    IF ev.type = "SDL_QUIT" THEN TRUE
    ELSE IF ev.type = "SDL_KEYDOWN" /\ ev.sym = "SDLK_ESCAPE" THEN TRUE
    ELSE q

\* variant of L6Quit: Escape is not handled
L6QuitOnQuitOnly(q, ev) == IF ev.type = "SDL_QUIT" THEN TRUE ELSE q

\* Lesson 6: new value of quit
L6Quit(q, ev) ==
    IF ev.type = "SDL_QUIT"
       \/ (ev.type = "SDL_KEYDOWN" /\ ev.sym = "SDLK_ESCAPE")
    THEN TRUE ELSE q

(***************************************************************************)
(* Helper functions of the lessons                                         *)
(***************************************************************************)
\* Lesson 2 loadTexture: SDL_LoadBMP, SDL_CreateTextureFromSurface,
\* SDL_FreeSurface; tex is the caller's pointer, surf the local loadedImage
LoadOutcomes == {"load_fail", "tex_fail", "ok"}
loadTextureBMP(r, tex, surf, outcome) ==
    IF outcome = "load_fail"
    THEN Acquire(Acquire(r, surf, FALSE), tex, FALSE)
    ELSE Destroy(Acquire(Acquire(r, surf, TRUE), tex, outcome = "ok"), surf)

\* Lessons 3, 4, 5 loadTexture: IMG_LoadTexture
loadTexture(r, tex, ok) == Acquire(r, tex, ok)

\* Lesson 6 renderText: TTF_OpenFont, TTF_RenderText_Blended,
\* SDL_CreateTextureFromSurface, SDL_FreeSurface, TTF_CloseFont
TextOutcomes == {"font_fail", "surf_fail", "tex_fail", "ok"}
renderText(r, outcome) ==
    IF outcome = "font_fail" THEN Acquire(r, "font", FALSE)
    ELSE LET r1 == Acquire(r, "font", TRUE)
         IN  IF outcome = "surf_fail"
             THEN Destroy(Acquire(r1, "surf", FALSE), "font")
             ELSE LET r2 == Acquire(r1, "surf", TRUE)
                      r3 == Acquire(r2, "image", outcome = "ok")
                  IN  Destroy(Destroy(r3, "surf"), "font")

\* what SDL_GetBasePath reports inside a lesson's main
MainGbp == {NullGbp,
            [ok |-> TRUE, path |-> <<PATH_SEP, "b", "i", "n", PATH_SEP>>]}

(***************************************************************************)
(* main                                                                    *)
(***************************************************************************)
Init ==
    /\ lesson \in Lessons
    /\ pc = "SDL_Init"
    /\ exitCode = -1
    /\ res = InitRes
    /\ iter = 0
    /\ screen = [w |-> SCREEN_WIDTH, h |-> SCREEN_HEIGHT]
    /\ tile = [w |-> TILE_W, h |-> TILE_H]
    /\ image = [w |-> 0, h |-> 0]
    /\ xTiles = 0 /\ yTiles = 0 /\ totalTiles = 0
    /\ clips = <<>>
    /\ useClip = 0
    /\ xScreenTiles = 0 /\ yScreenTiles = 0 /\ totalScreenTiles = 0
    /\ quit = FALSE
    /\ e = NoEvent
    /\ drawn = NoFrame
    /\ framesAfterQuit = 0
    /\ InitPath

\* return code from main, with r the handles and subsystems at that point
Return(r, code) ==
    /\ res' = r
    /\ exitCode' = code
    /\ pc' = "done"

\* continue at the next step
Goto(r, next) ==
    /\ res' = r
    /\ pc' = next
    /\ UNCHANGED exitCode

MainSDLInit ==
    /\ pc = "SDL_Init"
    /\ \E ok \in BOOLEAN :
         IF ok
         THEN Goto(SDL_Init(res, TRUE),
                   IF lesson = "L6" THEN "TTF_Init" ELSE "CreateWindow")
         ELSE Return(SDL_Init(res, FALSE), 1)
    /\ UNCHANGED <<lesson, iter, tileVars, loopVars, pathVars>>

MainTTFInit ==
    /\ pc = "TTF_Init"
    /\ \E ok \in BOOLEAN :
         IF ok
         THEN Goto(TTF_Init(res, TRUE), "CreateWindow")
         ELSE Return(SDL_Quit(TTF_Init(res, FALSE)), 1)
    /\ UNCHANGED <<lesson, iter, tileVars, loopVars, pathVars>>

MainCreateWindow ==
    /\ pc = "CreateWindow"
    /\ \E ok \in BOOLEAN :
         IF ok
         THEN Goto(Acquire(res, "win", TRUE), "CreateRenderer")
         ELSE Return(SDL_Quit(Acquire(res, "win", FALSE)), 1)
    /\ UNCHANGED <<lesson, iter, tileVars, loopVars, pathVars>>

MainCreateRenderer ==
    /\ pc = "CreateRenderer"
    /\ \E ok \in BOOLEAN :
         IF ok
         THEN Goto(Acquire(res, "ren", TRUE), "LoadImage")
         ELSE LET r0 == Acquire(res, "ren", FALSE)
                  r1 == IF lesson = "L1" THEN Destroy(r0, "win")
                        ELSE cleanup(r0, <<"win">>)
              IN  Return(SDL_Quit(r1), 1)
    /\ UNCHANGED <<lesson, iter, tileVars, loopVars, pathVars>>

\* the name each lesson passes to getResourcePath
LessonDir == <<lesson>>

\* Lesson 1 (both versions): getResourcePath, SDL_LoadBMP
L1LoadBMP ==
    /\ pc = "LoadImage"
    /\ lesson \in {"L1", "L1c"}
    /\ \E gbp \in MainGbp : ResPathCall(LessonDir, gbp)
    /\ \E ok \in BOOLEAN :
         IF ok
         THEN Goto(Acquire(res, "bmp", TRUE), "CreateTexture")
         ELSE LET r0 == Acquire(res, "bmp", FALSE)
                  r1 == IF lesson = "L1"
                        THEN Destroy(Destroy(r0, "ren"), "win")
                        ELSE cleanup(r0, <<"ren", "win">>)
              IN  Return(SDL_Quit(r1), 1)
    /\ UNCHANGED <<lesson, iter, tileVars, loopVars>>

\* Lesson 1 (both versions): SDL_CreateTextureFromSurface, free the surface
L1CreateTexture ==
    /\ pc = "CreateTexture"
    /\ \E ok \in BOOLEAN :
         LET r0 == Acquire(res, "tex", ok)
             r1 == IF lesson = "L1" THEN Destroy(r0, "bmp")
                   ELSE cleanup(r0, <<"bmp">>)
             r2 == IF lesson = "L1"
                   THEN Destroy(Destroy(r1, "ren"), "win")
                   ELSE cleanup(r1, <<"ren", "win">>)
         IN  IF ok THEN Goto(r1, "frame")
             ELSE Return(SDL_Quit(r2), 1)
    /\ UNCHANGED <<lesson, iter, tileVars, loopVars, pathVars>>

\* Lesson 1 (both versions): one iteration of the rendering loop
L1Frame ==
    /\ pc = "frame"
    /\ iter < L1_FRAMES
    /\ iter' = iter + 1
    /\ Goto(RenderCall(res),
            IF iter + 1 < L1_FRAMES THEN "frame" ELSE "cleanup")
    /\ UNCHANGED <<lesson, tileVars, loopVars, pathVars>>

\* Lessons 2 and 3: getResourcePath, two loadTexture calls
L23LoadImages ==
    /\ pc = "LoadImage"
    /\ lesson \in {"L2", "L3"}
    /\ \E gbp \in MainGbp : ResPathCall(LessonDir, gbp)
    /\ \E o1 \in LoadOutcomes, o2 \in LoadOutcomes :
         /\ lesson = "L3" => (o1 # "tex_fail" /\ o2 # "tex_fail")
         /\ LET r1 == IF lesson = "L2"
                      THEN loadTextureBMP(res, "background", "bgSurf", o1)
                      ELSE loadTexture(res, "background", o1 = "ok")
                r2 == IF lesson = "L2"
                      THEN loadTextureBMP(r1, "image", "imgSurf", o2)
                      ELSE loadTexture(r1, "image", o2 = "ok")
            IN  IF r2.ptr["background"] = "NULL" \/ r2.ptr["image"] = "NULL"
                THEN Return(SDL_Quit(cleanup(r2,
                         <<"background", "image", "ren", "win">>)), 1)
                ELSE Goto(r2, "draw")
    /\ UNCHANGED <<lesson, iter, tileVars, loopVars>>

\* Lessons 2 and 3: the drawing between loading and cleanup
L23Draw ==
    /\ pc = "draw"
    /\ Goto(RenderCall(res), "cleanup")
    /\ UNCHANGED <<lesson, iter, tileVars, loopVars, pathVars>>

\* Lessons 4 and 5: getResourcePath, loadTexture
L45LoadImage ==
    /\ pc = "LoadImage"
    /\ lesson \in {"L4", "L5"}
    /\ \E gbp \in MainGbp : ResPathCall(LessonDir, gbp)
    /\ \E ok \in BOOLEAN :
         LET r1 == loadTexture(res, "image", ok)
         IN  IF r1.ptr["image"] = "NULL"
             THEN Return(SDL_Quit(cleanup(r1, <<"image", "ren", "win">>)), 1)
             ELSE Goto(r1, "setup")
    /\ UNCHANGED <<lesson, iter, tileVars, loopVars>>

\* Lesson 6: getResourcePath, renderText
L6RenderText ==
    /\ pc = "LoadImage"
    /\ lesson = "L6"
    /\ \E gbp \in MainGbp : ResPathCall(LessonDir, gbp)
    /\ \E o \in TextOutcomes :
         LET r1 == renderText(res, o)
         IN  IF r1.ptr["image"] = "NULL"
             THEN Return(SDL_Quit(TTF_Quit(cleanup(r1, <<"ren", "win">>))), 1)
             ELSE Goto(r1, "setup")
    /\ UNCHANGED <<lesson, iter, tileVars, loopVars>>

\* Lessons 4 and 6: the code between loading and the event loop
L46Setup ==
    /\ pc = "setup"
    /\ lesson \in {"L4", "L6"}
    /\ Goto(IF lesson = "L4" THEN RenderCall(res) ELSE res, "poll")
    /\ quit' = FALSE
    /\ UNCHANGED <<lesson, iter, tileVars, e, drawn, framesAfterQuit,
                   pathVars>>

\* Lesson 5: SDL_QueryTexture, the tile counts, the build loop, useClip
L5BuildClips ==
    /\ pc = "setup"
    /\ lesson = "L5"
    /\ \E img \in ImageSizes :
         /\ image' = img
         /\ xTiles' = SourceTiles(img.w, tile.w)
         /\ yTiles' = SourceTiles(img.h, tile.h)
    /\ totalTiles' = xTiles' * yTiles'
    /\ clips' = BuildClips(totalTiles', yTiles', tile)
    /\ useClip' = 0
    /\ Goto(res, "grid")
    /\ UNCHANGED <<lesson, iter, screen, tile, xScreenTiles, yScreenTiles,
                   totalScreenTiles, loopVars, pathVars>>

\* Lesson 5: the screen grid numbers, quit = false
L5ScreenGrid ==
    /\ pc = "grid"
    /\ xScreenTiles' = ScreenTiles(screen.w, tile.w)
    /\ yScreenTiles' = ScreenTiles(screen.h, tile.h)
    /\ totalScreenTiles' = xScreenTiles' * yScreenTiles'
    /\ quit' = FALSE
    /\ Goto(res, "poll")
    /\ UNCHANGED <<lesson, iter, screen, tile, image, xTiles, yTiles,
                   totalTiles, clips, useClip, e, drawn, framesAfterQuit,
                   pathVars>>

\* SDL_PollEvent returned 1 with event ev: the body of the inner loop
PollEvent ==
    /\ pc = "poll"
    /\ \E ev \in Events :
         /\ e' = ev
         /\ quit' = CASE lesson = "L4" -> L4Handle(quit, ev)
                      [] lesson = "L5" -> L5Quit(quit, ev)
                      [] OTHER -> L6Quit(quit, ev)
         /\ useClip' = IF lesson = "L5" THEN L5UseClip(useClip, ev)
                       ELSE useClip
    /\ UNCHANGED <<mainVars, screen, tile, image, xTiles, yTiles, totalTiles,
                   clips, xScreenTiles, yScreenTiles, totalScreenTiles,
                   drawn, framesAfterQuit, pathVars>>

\* SDL_PollEvent returned 0: the inner loop ends
PollEmpty ==
    /\ pc = "poll"
    /\ Goto(res, "render")
    /\ UNCHANGED <<lesson, iter, tileVars, loopVars, pathVars>>

\* the frame Lesson 5 draws: one renderTexture call per screen tile, every
\* one with &clips[useClip]
L5Frame(src) ==
    [dst |-> [i \in 0..(totalScreenTiles - 1) |->
                 ScreenOrigin(i, yScreenTiles, tile)],
     clipIdx |-> useClip,
     src |-> src]

\* SDL_RenderClear, the draw calls, SDL_RenderPresent, and the test of the
\* outer loop
Render ==
    /\ pc = "render"
    /\ IF lesson = "L5"
       THEN \E src \in (IF useClip \in DOMAIN clips THEN {clips[useClip]}
                        ELSE GarbageRects) :
                drawn' = L5Frame(src)
       ELSE UNCHANGED drawn
    /\ framesAfterQuit' = framesAfterQuit + (IF quit THEN 1 ELSE 0)
    /\ Goto(RenderCall(res), IF quit THEN "cleanup" ELSE "poll")
    /\ UNCHANGED <<lesson, iter, tileVars, quit, e, pathVars>>

\* the cleanup at the end of main
MainCleanup ==
    /\ pc = "cleanup"
    /\ LET r == CASE lesson = "L1" ->
                       Destroy(Destroy(Destroy(res, "tex"), "ren"), "win")
                  [] lesson = "L1c" -> cleanup(res, <<"tex", "ren", "win">>)
                  [] lesson = "L2" ->
                       cleanup(res, <<"background", "image", "ren", "win">>)
                  [] lesson = "L3" ->
                       IMG_Quit(cleanup(res,
                           <<"background", "image", "ren", "win">>))
                  [] lesson \in {"L4", "L5"} ->
                       IMG_Quit(cleanup(res, <<"image", "ren", "win">>))
                  [] OTHER ->
                       TTF_Quit(cleanup(res, <<"image", "ren", "win">>))
       IN  Return(SDL_Quit(r), 0)
    /\ UNCHANGED <<lesson, iter, tileVars, loopVars, pathVars>>

Next ==
    \/ MainSDLInit
    \/ MainTTFInit
    \/ MainCreateWindow
    \/ MainCreateRenderer
    \/ L1LoadBMP
    \/ L1CreateTexture
    \/ L1Frame
    \/ L23LoadImages
    \/ L23Draw
    \/ L45LoadImage
    \/ L6RenderText
    \/ L46Setup
    \/ L5BuildClips
    \/ L5ScreenGrid
    \/ PollEvent
    \/ PollEmpty
    \/ Render
    \/ MainCleanup

Spec == Init /\ [][Next]_vars

(***************************************************************************)
(* Repeated calls of getResourcePath                                       *)
(***************************************************************************)
InitResPath ==
    /\ lesson = "L1c"
    /\ pc = "respath"
    /\ exitCode = -1
    /\ res = InitRes
    /\ iter = 0
    /\ screen = [w |-> SCREEN_WIDTH, h |-> SCREEN_HEIGHT]
    /\ tile = [w |-> TILE_W, h |-> TILE_H]
    /\ image = [w |-> 0, h |-> 0]
    /\ xTiles = 0 /\ yTiles = 0 /\ totalTiles = 0
    /\ clips = <<>>
    /\ useClip = 0
    /\ xScreenTiles = 0 /\ yScreenTiles = 0 /\ totalScreenTiles = 0
    /\ quit = FALSE
    /\ e = NoEvent
    /\ drawn = NoFrame
    /\ framesAfterQuit = 0
    /\ InitPath

\* a call getResourcePath(subDir) from anywhere in the process
GetResourcePath ==
    /\ pc = "respath"
    /\ baseRes # <<>> \/ gbpCalls < MaxCalls
    /\ \E subDir \in SubDirs :
         \E gbp \in (IF baseRes = <<>> THEN GbpResults ELSE {NullGbp}) :
            ResPathCall(subDir, gbp)
    /\ UNCHANGED <<mainVars, tileVars, loopVars>>

SpecResPath == InitResPath /\ [][GetResourcePath]_vars

(***************************************************************************)
(* The screen grid for any display and tile size                           *)
(***************************************************************************)
GridSizes(max, own) == (1..max) \cup {own}

InitGrid ==
    /\ lesson = "L5"
    /\ pc = "grid"
    /\ exitCode = -1
    /\ res = [InitRes EXCEPT !.sdl = "up",
                             !.ptr = [h \in Handles |->
                                 IF h \in {"win", "ren", "image"}
                                 THEN "LIVE" ELSE "NULL"]]
    /\ iter = 0
    /\ screen \in {[w |-> a, h |-> b] :
                     a \in GridSizes(MaxDisplay, SCREEN_WIDTH),
                     b \in GridSizes(MaxDisplay, SCREEN_HEIGHT)}
    /\ tile \in {[w |-> a, h |-> b] :
                     a \in GridSizes(MaxTile, TILE_W),
                     b \in GridSizes(MaxTile, TILE_H)}
    /\ image = [w |-> 2 * tile.w, h |-> tile.h]
    /\ xTiles = 2 /\ yTiles = 1 /\ totalTiles = 2
    /\ clips = BuildClips(2, 1, tile)
    /\ useClip = 0
    /\ xScreenTiles = 0 /\ yScreenTiles = 0 /\ totalScreenTiles = 0
    /\ quit = FALSE
    /\ e = NoEvent
    /\ drawn = NoFrame
    /\ framesAfterQuit = 0
    /\ baseRes = ReplaceBin(<<PATH_SEP, "b", "i", "n", PATH_SEP>>)
    /\ gbpCalls = 1
    /\ gbpSucceeded = TRUE
    /\ lastBase = [queried |-> TRUE, ok |-> TRUE,
                   path |-> <<PATH_SEP, "b", "i", "n", PATH_SEP>>]
    /\ lastSub = <<"L5">>
    /\ ret = baseRes \o <<"L5", PATH_SEP>>

SpecGrid == InitGrid /\ [][L5ScreenGrid]_vars

(***************************************************************************)
(* Properties                                                              *)
(***************************************************************************)
\* Lesson 5 has run its build loop
ClipsBuilt == lesson = "L5" /\ image.w > 0

\* Lesson 5 has rendered at least one frame
FrameDrawn == lesson = "L5" /\ drawn.clipIdx # -1

\* floor(a / b), stated by its defining inequalities
Floor(a, b) == CHOOSE q \in 0..a : q * b <= a /\ a < (q + 1) * b

\* C1: in Lesson 5, for an image of at least one tile in both dimensions
\* totalTiles is floor(imageW / tileW) * floor(imageH / tileH), the clips
\* array has exactly that many rectangles and none reaches into the pixels
\* beyond the last whole tile; for an image smaller than one tile in either
\* dimension totalTiles is 0 and the build loop produces no rectangle.
C1_TotalTiles ==
    ClipsBuilt =>
        /\ (image.w >= tile.w /\ image.h >= tile.h) =>
              /\ totalTiles = Floor(image.w, tile.w) * Floor(image.h, tile.h)
              /\ totalTiles >= 1
              /\ DOMAIN clips = 0..(totalTiles - 1)
              /\ \A i \in DOMAIN clips :
                    /\ clips[i].x + clips[i].w <= Floor(image.w, tile.w) * tile.w
                    /\ clips[i].y + clips[i].h <= Floor(image.h, tile.h) * tile.h
        /\ (image.w < tile.w \/ image.h < tile.h) =>
              /\ totalTiles = 0
              /\ DOMAIN clips = {}

\* a 250x150 image: one row of two tiles, 50 pixels left over each way
C1_Witness ==
    /\ ClipsBuilt
    /\ image = [w |-> 250, h |-> 150]
    /\ totalTiles = 2
    /\ DOMAIN clips = {0, 1}

\* C2: every clip rectangle of Lesson 5 lies inside the source image.
C2_ClipsInsideImage ==
    ClipsBuilt =>
        \A i \in 0..(totalTiles - 1) :
            /\ i \in DOMAIN clips
            /\ clips[i].x >= 0
            /\ clips[i].y >= 0
            /\ clips[i].x + clips[i].w <= image.w
            /\ clips[i].y + clips[i].h <= image.h

\* the last clip of a 350x200 image ends 50 pixels short of the right edge
C2_Witness ==
    /\ ClipsBuilt
    /\ image = [w |-> 350, h |-> 200]
    /\ totalTiles = 6
    /\ clips[5].x + clips[5].w = 300
    /\ clips[5].y + clips[5].h = 200

\* C3: the clips are numbered column-major: clips[0] is at the origin, and
\* clips[i+1] is clips[i] moved down by tileH unless i is the last of its
\* column, in which case it is moved right by tileW with y back at 0; a
\* 400x200 image gives 8 clips starting {0,0}, {0,100}, {100,0}.
C3_ColumnMajor ==
    ClipsBuilt =>
        /\ totalTiles > 0 =>
              clips[0] = [x |-> 0, y |-> 0, w |-> tile.w, h |-> tile.h]
        /\ \A i \in 0..(totalTiles - 2) :
              IF i % yTiles # yTiles - 1
              THEN clips[i + 1] = [clips[i] EXCEPT !.y = @ + tile.h]
              ELSE clips[i + 1] = [clips[i] EXCEPT !.x = @ + tile.w, !.y = 0]
        /\ image = [w |-> 400, h |-> 200] =>
              /\ totalTiles = 8
              /\ clips[0] = [x |-> 0, y |-> 0, w |-> 100, h |-> 100]
              /\ clips[1] = [x |-> 0, y |-> 100, w |-> 100, h |-> 100]
              /\ clips[2] = [x |-> 100, y |-> 0, w |-> 100, h |-> 100]

C3_Witness ==
    /\ ClipsBuilt
    /\ image = [w |-> 400, h |-> 200]
    /\ totalTiles = 8
    /\ clips[7] = [x |-> 300, y |-> 100, w |-> 100, h |-> 100]

\* n is the least count of tiles of edge t that covers size
LeastCover(n, size, t) ==
    /\ n >= 0
    /\ n * t >= size
    /\ \A m \in 0..(n - 1) : m * t < size

\* C4: the screen grid counts are ceiling divisions: for every display and
\* tile size xScreenTiles (yScreenTiles) is the least n with n * tileW >=
\* displayWidth (n * tileH >= displayHeight); 640x480 with 100x100 tiles
\* gives 7 columns, 5 rows and 35 screen tiles.
C4_CeilingGrid ==
    (lesson = "L5" /\ pc = "poll") =>
        /\ LeastCover(xScreenTiles, screen.w, tile.w)
        /\ LeastCover(yScreenTiles, screen.h, tile.h)
        /\ totalScreenTiles = xScreenTiles * yScreenTiles
        /\ (screen = [w |-> 640, h |-> 480] /\ tile = [w |-> 100, h |-> 100])
              => (xScreenTiles = 7 /\ yScreenTiles = 5
                  /\ totalScreenTiles = 35)

C4_Witness ==
    /\ lesson = "L5" /\ pc = "poll"
    /\ screen = [w |-> 640, h |-> 480]
    /\ tile = [w |-> 100, h |-> 100]
    /\ totalScreenTiles = 35

\* C5: the clip index of every draw call of Lesson 5 is inside the clips
\* array, 0 <= useClip < totalTiles; in particular no draw call reads clips
\* when totalTiles is 0.
C5_ClipIndexInRange ==
    FrameDrawn => (0 <= drawn.clipIdx /\ drawn.clipIdx < totalTiles)

\* C6: no handle is released twice, no release call is made with a null
\* handle, and when main returns every handle that was acquired has been
\* released exactly once (also those that follow a null handle in the same
\* cleanup call).
C6_ReleasedExactlyOnce ==
    /\ \A h \in Handles : res.rel[h] <= 1
    /\ \A h \in Handles : res.ptr[h] = "NULL" => res.rel[h] = 0
    /\ pc = "done" =>
          \A h \in Handles : res.ptr[h] = "LIVE" => res.rel[h] = 1

\* Lesson 4 after a failed image load: cleanup(image, ren, win) with image
\* null has released the renderer and the window
C6_Witness ==
    /\ lesson = "L4"
    /\ pc = "done"
    /\ exitCode = 1
    /\ res.ptr["image"] = "NULL"
    /\ res.ptr["ren"] = "LIVE" /\ res.rel["ren"] = 1
    /\ res.ptr["win"] = "LIVE" /\ res.rel["win"] = 1

\* the value a call with sub directory sub returns for cache content b
PathFor(b, sub) == IF sub = <<>> THEN b ELSE b \o sub \o <<PATH_SEP>>

\* C7: once SDL_GetBasePath has succeeded, a call of getResourcePath does
\* not query it again, leaves baseRes unchanged and returns baseRes or
\* baseRes + subDir + PATH_SEP; as long as it has not succeeded the cache is
\* empty and every call queries it, and a call in which it returns NULL
\* returns the empty string and leaves the cache empty.
C7_Memoized ==
    [][ /\ gbpSucceeded =>
              /\ gbpCalls' = gbpCalls
              /\ baseRes' = baseRes
              /\ baseRes # <<>>
              /\ ret' = PathFor(baseRes, lastSub')
        /\ ~gbpSucceeded =>
              /\ baseRes = <<>>
              /\ gbpCalls' = gbpCalls + 1
              /\ lastBase'.queried
        /\ (lastBase'.queried /\ ~lastBase'.ok) =>
              /\ ret' = <<>>
              /\ baseRes' = <<>>
              /\ ~gbpSucceeded'
      ]_vars

\* a failed query, a successful one, then a call served from the cache
C7_Witness ==
    /\ pc = "respath"
    /\ gbpSucceeded
    /\ gbpCalls = 2
    /\ ~lastBase.queried
    /\ lastSub = <<"L">>
    /\ ret = baseRes \o <<"L", PATH_SEP>>

EndsWith(s, suffix) ==
    /\ Len(s) >= Len(suffix)
    /\ SubSeq(s, Len(s) - Len(suffix) + 1, Len(s)) = suffix

\* s without its last n characters
DropLast(s, n) == SubSeq(s, 1, Len(s) - n)

\* the base path with a trailing "bin" PATH_SEP taken off, if it has one
StripTrailingBin(path) ==
    IF EndsWith(path, BIN \o <<PATH_SEP>>) THEN DropLast(path, 4) ELSE path

\* C8 as stated: for every base path only a trailing "bin" PATH_SEP is
\* replaced by "res" PATH_SEP and everything before it is kept.
C8_EveryBasePath ==
    (pc = "respath" /\ lastBase.ok) =>
        /\ baseRes = StripTrailingBin(lastBase.path) \o RES \o <<PATH_SEP>>
        /\ lastBase.queried => ret = PathFor(baseRes, lastSub)

\* C8: for every base path that ends in "bin" PATH_SEP, baseRes is the base
\* path with that trailing component replaced by "res" PATH_SEP, everything
\* before it unchanged, and the call returns baseRes or baseRes + subDir +
\* PATH_SEP.
C8_TrailingBinReplaced ==
    (pc = "respath" /\ lastBase.ok
     /\ EndsWith(lastBase.path, BIN \o <<PATH_SEP>>)) =>
        /\ baseRes = DropLast(lastBase.path, 4) \o RES \o <<PATH_SEP>>
        /\ lastBase.queried => ret = PathFor(baseRes, lastSub)

C8_Witness ==
    /\ pc = "respath"
    /\ lastBase.ok /\ lastBase.queried
    /\ lastBase.path = <<PATH_SEP, "b", "i", "n", PATH_SEP>>
    /\ baseRes = <<PATH_SEP, "r", "e", "s", PATH_SEP>>
    /\ lastSub = <<"L">>
    /\ ret = <<PATH_SEP, "r", "e", "s", PATH_SEP, "L", PATH_SEP>>

\* C9: a frame of Lesson 5 has one draw call per index in
\* [0, totalScreenTiles), at x = (i / yScreenTiles) * tileW and
\* y = (i % yScreenTiles) * tileH; the origins drawn are exactly the grid
\* cells and no two indices share an origin, so every cell is drawn exactly
\* once; the last column and row reach beyond the 640x480 display.
C9_ScreenBijection ==
    FrameDrawn =>
        /\ DOMAIN drawn.dst = 0..(totalScreenTiles - 1)
        /\ \A i \in DOMAIN drawn.dst :
              /\ drawn.dst[i].x = (i \div yScreenTiles) * tile.w
              /\ drawn.dst[i].y = (i % yScreenTiles) * tile.h
              /\ drawn.dst[i].x \in {c * tile.w : c \in 0..(xScreenTiles - 1)}
              /\ drawn.dst[i].y \in {r * tile.h : r \in 0..(yScreenTiles - 1)}
        /\ {drawn.dst[i] : i \in DOMAIN drawn.dst}
              = {[x |-> c * tile.w, y |-> r * tile.h] :
                    c \in 0..(xScreenTiles - 1), r \in 0..(yScreenTiles - 1)}
        /\ Cardinality({drawn.dst[i] : i \in DOMAIN drawn.dst})
              = totalScreenTiles
        /\ \E i \in DOMAIN drawn.dst : drawn.dst[i].x + tile.w > screen.w
        /\ \E i \in DOMAIN drawn.dst : drawn.dst[i].y + tile.h > screen.h

C9_Witness ==
    /\ FrameDrawn
    /\ totalScreenTiles = 35
    /\ drawn.dst[5] = [x |-> 100, y |-> 0]
    /\ drawn.dst[34] = [x |-> 600, y |-> 400]

L4QuitTypes == {"SDL_QUIT", "SDL_KEYDOWN", "SDL_MOUSEBUTTONDOWN"}

\* a step of the inner loop body: SDL_PollEvent delivered the event e'
Polled == pc = "poll" /\ pc' = "poll"

\* C10: in Lesson 4 quit becomes true exactly in a step that polls an event
\* of type SDL_QUIT, SDL_KEYDOWN or SDL_MOUSEBUTTONDOWN, and polling any
\* other type leaves quit as it is; setting quit does not leave the inner
\* loop, which ends only when SDL_PollEvent reports no event; a frame
\* rendered with quit false returns to polling, a frame rendered with quit
\* true is the only such frame and is followed by the exit of the loop.
C10_QuitOnInput ==
    [][ lesson = "L4" =>
          /\ (~quit /\ quit') => (Polled /\ e'.type \in L4QuitTypes)
          /\ (Polled /\ e'.type \in L4QuitTypes) => quit'
          /\ (Polled /\ e'.type \notin L4QuitTypes) => quit' = quit
          /\ (pc = "poll" /\ pc' # "poll") =>
                /\ pc' = "render"
                /\ e' = e
                /\ quit' = quit
          /\ (pc = "render" /\ ~quit) =>
                (pc' = "poll" /\ framesAfterQuit' = 0)
          /\ (pc = "render" /\ quit) =>
                (pc' = "cleanup" /\ framesAfterQuit = 0
                 /\ framesAfterQuit' = 1)
          /\ pc' = "cleanup" => (pc = "render" /\ quit)
          /\ (quit /\ ~quit') => pc = "setup"
      ]_vars

\* Lesson 4 has left its loop after a mouse motion event was drained with
\* quit already true
C10_Witness ==
    /\ lesson = "L4"
    /\ pc = "cleanup"
    /\ quit
    /\ e.type = "SDL_MOUSEMOTION"
    /\ framesAfterQuit = 1

\* the clip index a key selects in Lesson 5, -1 for any other key
ClipOfKey(sym) ==
    CASE sym \in {"SDLK_1", "SDLK_KP_1"} -> 0
      [] sym \in {"SDLK_2", "SDLK_KP_2"} -> 1
      [] sym \in {"SDLK_3", "SDLK_KP_3"} -> 2
      [] sym \in {"SDLK_4", "SDLK_KP_4"} -> 3
      [] OTHER -> -1

\* C11: in the Lesson 5 event loop a key 1..4 (main row or keypad) sets
\* useClip to 0..3 and leaves quit unchanged, SDL_QUIT or Escape sets quit
\* and leaves useClip unchanged, any other event leaves both unchanged; the
\* clips array and the source tile counts do not change once built, the
\* screen tile counts do not change once computed, and quit never goes from
\* true back to false.
C11_EventEffects ==
    [][ lesson = "L5" =>
          /\ (Polled /\ e'.type = "SDL_KEYDOWN" /\ ClipOfKey(e'.sym) # -1) =>
                (useClip' = ClipOfKey(e'.sym) /\ quit' = quit)
          /\ (Polled /\ (e'.type = "SDL_QUIT"
                         \/ (e'.type = "SDL_KEYDOWN"
                             /\ e'.sym = "SDLK_ESCAPE"))) =>
                (quit' /\ useClip' = useClip)
          /\ (Polled /\ e'.type # "SDL_QUIT"
              /\ ~(e'.type = "SDL_KEYDOWN"
                   /\ (ClipOfKey(e'.sym) # -1 \/ e'.sym = "SDLK_ESCAPE"))) =>
                (useClip' = useClip /\ quit' = quit)
          /\ ClipsBuilt =>
                /\ clips' = clips
                /\ image' = image
                /\ <<xTiles, yTiles, totalTiles>>' = <<xTiles, yTiles, totalTiles>>
          /\ pc \in {"poll", "render", "cleanup"} =>
                <<xScreenTiles, yScreenTiles, totalScreenTiles>>'
                    = <<xScreenTiles, yScreenTiles, totalScreenTiles>>
          /\ quit => quit'
      ]_vars

\* keypad 3 was just polled in Lesson 5 and selected clip 2 of a 200x200
\* image
C11_Witness ==
    /\ lesson = "L5"
    /\ pc = "poll"
    /\ e = [type |-> "SDL_KEYDOWN", sym |-> "SDLK_KP_3"]
    /\ useClip = 2
    /\ ~quit
    /\ image = [w |-> 200, h |-> 200]
    /\ totalTiles = 4

(***************************************************************************)
(* Termination of the event-loop lessons                                   *)
(***************************************************************************)
LoopLessons == {"L4", "L5", "L6"}

\* the events that end the loop of lesson l
QuitEvents(l) ==
    IF l = "L4" THEN {ev \in Events : ev.type \in L4QuitTypes}
    ELSE {ev \in Events :
            \/ ev.type = "SDL_QUIT"
            \/ (ev.type = "SDL_KEYDOWN" /\ ev.sym = "SDLK_ESCAPE")}

\* SDL_PollEvent delivers a quit-triggering event
PollQuitEvent == PollEvent /\ e' \in QuitEvents(lesson)

\* main keeps running; every inner poll loop finds the queue empty after
\* finitely many events; a quit-triggering event is delivered eventually
SpecLive ==
    /\ Init
    /\ [][Next]_vars
    /\ WF_vars(Render)
    /\ WF_vars(MainCleanup)
    /\ WF_vars(PollEmpty)
    /\ SF_vars(PollQuitEvent)

\* quit is set exactly by polling a quit-triggering event, and the loop is
\* left for the final cleanup only with quit set
LoopLeftOnlyByQuit ==
    lesson \in LoopLessons =>
        /\ Polled => (quit' = (quit \/ e' \in QuitEvents(lesson)))
        /\ (~quit /\ quit') => Polled
        /\ (pc \in {"poll", "render"} /\ ~quit) => pc' \in {"poll", "render"}
        /\ pc' = "cleanup" => quit

\* main has done the final cleanup and returned 0
CleanedUpAndReturned ==
    /\ pc = "done"
    /\ exitCode = 0
    /\ \A h \in {"image", "ren", "win"} : res.rel[h] = 1
    /\ res.sdlQuits = 1

\* C12: in Lessons 4, 5 and 6, with finite poll loops and a quit-triggering
\* event eventually delivered, a program that has entered its event loop
\* eventually has left it, done the final cleanup (texture, renderer and
\* window released, SDL shut down) and returned 0; quit is set exactly by
\* polling a quit-triggering event, and the loop is left for the final
\* cleanup only with quit set, so without such an event cleanup is never
\* reached.
C12_LoopTerminates ==
    /\ (lesson \in LoopLessons /\ pc = "poll") ~> CleanedUpAndReturned
    /\ [][LoopLeftOnlyByQuit]_vars

\* Lesson 6 has returned 0 after Escape ended its loop
C12_Witness ==
    /\ lesson = "L6"
    /\ pc = "done"
    /\ exitCode = 0
    /\ quit
    /\ e = [type |-> "SDL_KEYDOWN", sym |-> "SDLK_ESCAPE"]
    /\ framesAfterQuit = 1
    /\ res.sdlQuits = 1

(***************************************************************************)
(* Initialisation chain and subsystem shutdown                             *)
(***************************************************************************)
TextureHandles == {"bmp", "tex", "background", "image", "bgSurf", "imgSurf",
                   "font", "surf"}

\* a step is attempted only after every earlier step succeeded, and main
\* returns 1 exactly when it never reached its final cleanup
StrictChain ==
    /\ res.sdl = "off" => (res.ttf = "off" /\ res.ptr["win"] = "NULL")
    /\ (lesson = "L6" /\ res.ttf = "off") => res.ptr["win"] = "NULL"
    /\ lesson # "L6" => res.ttf = "off"
    /\ res.ptr["win"] = "NULL" => res.ptr["ren"] = "NULL"
    /\ res.ptr["ren"] = "NULL" =>
          \A h \in TextureHandles : res.ptr[h] = "NULL"
    /\ pc = "done" => exitCode \in {0, 1}
    /\ (pc = "done" /\ exitCode = 1) =>
          \A h \in Handles : res.ptr[h] = "LIVE" => res.rel[h] = 1
    /\ pc # "done" => (exitCode = -1 /\ res.sdlQuits = 0 /\ res.ttfQuits = 0)

\* SDL is shut down exactly once on every return after a successful
\* SDL_Init, and nothing is rendered, released or shut down after SDL_Quit
SdlShutDownLast ==
    /\ res.sdlQuits <= 1
    /\ ~res.late
    /\ res.sdl = "off" => res.sdlQuits = 0
    /\ pc = "done" => res.sdl # "up"

\* SDL_ttf is shut down exactly once on every return after a successful
\* TTF_Init
TtfShutDown ==
    /\ res.ttfQuits <= 1
    /\ res.ttf = "off" => res.ttfQuits = 0
    /\ pc = "done" => res.ttf # "up"

\* C13: initialisation is a strict chain whose failures return 1 without
\* attempting a later step, and on every return each subsystem that was
\* initialised (SDL, SDL_ttf) has been shut down exactly once, SDL_Quit
\* last, with no render or release call after it.
C13_ChainAndShutdown == StrictChain /\ SdlShutDownLast /\ TtfShutDown

====
